---------------------------- MODULE Spec2Model ----------------------------
(***************************************************************************)
(* A model of the news aggregator: the refresh cache of app.py (the        *)
(* background loop update_articles, the handlers index, api_articles and   *)
(* refresh, all sharing articles_cache / last_update under update_lock),   *)
(* the keyword matcher and the highlighter, and the aggregation pipeline   *)
(* scrape_all_sites of scraper.py.                                         *)
(*                                                                         *)
(* Strings are sequences of one-character strings, so that regular         *)
(* expression search, word boundaries and case folding are computed.       *)
(***************************************************************************)
EXTENDS Integers, Sequences, FiniteSets, TLC

VARIABLES
    \* ---- refresh cache (app.py) ----
    articles_cache,   \* the list the module global articles_cache refers to: a sequence of dict ids
    last_update,      \* the module global last_update
    update_lock,      \* holder of update_lock, or NoThread
    heap,             \* the article dicts, by identity: dict id -> (key -> value)
    now,              \* datetime.now(): the clock
    bg,               \* the thread running update_articles
    req,              \* the request handlers: request id -> its frame
    installs,         \* history: the (articles, last_update) pairs written by one install
    orig,             \* history: each article dict as scrape_all_sites returned it
    \* ---- keyword matcher (scraper.py) ----
    mk,               \* one call of match_keywords: its arguments and result
    \* ---- highlighter (app.py) ----
    hl,               \* one call of highlight_keywords: its arguments and result
    \* ---- aggregation pipeline (scraper.py) ----
    pipe              \* one run of scrape_all_sites

cacheVars == <<articles_cache, last_update, update_lock, heap, now, bg, req, installs, orig>>
vars == <<articles_cache, last_update, update_lock, heap, now, bg, req, installs, orig, mk, hl, pipe>>

(***************************************************************************)
(* Bounds of the model.                                                    *)
(***************************************************************************)
MaxCycles == 2      \* background cycles after the initial load
MaxReqs == 1        \* HTTP requests served (they may overlap)
MaxArts == 1        \* articles one pipeline run of the cache model returns

None == "None"
NoThread == <<"free", 0>>
BgThread == <<"bg", 0>>
ReqThread(i) == <<"req", i>>


(***************************************************************************)
(* Article dicts of the cache model.  scrape_all_sites returns a fresh     *)
(* list of fresh dicts; index() later stores display fields into the very  *)
(* dicts the list holds.                                                   *)
(***************************************************************************)
\* a dict as scrape_all_sites returns it (scraper.py, the record of lines 317-327 after the
\* filter loop has set ingress and summary)
NewArticle(k) ==
    [title |-> "title", link |-> "link", origin_url |-> "url",
     timestamp |-> IF k = 1 THEN "raw" ELSE None, ingress |-> "", summary |-> "title"]

\* the keys index() stores into an article dict, with their values
IndexFields(d) ==
    [formatted_timestamp |-> IF d["timestamp"] = None THEN None ELSE "formatted",
     domain |-> "domain",
     title_highlighted |-> "markup",
     ingress_highlighted |-> "markup",
     summary_highlighted |-> "markup"]

\* article[key] = value for every display field: the stored keys win over older ones
AnnotateArticle(d) == IndexFields(d) @@ d

\* the ids of the dicts run `run` creates when it returns n articles
DictIds(run, n) == [k \in 1..n |-> <<run[1], run[2], k>>]

\* what a call of scrape_all_sites that returns can give its caller in the cache model: a
\* list of at most MaxArts article dicts, here its length
ScrapeOutcomes == 0..MaxArts

\* the heap after a run has built its dicts
HeapWith(h, run, out) ==
    [id \in {DictIds(run, out)[k] : k \in 1..out} |-> NewArticle(id[3])] @@ h

(***************************************************************************)
(* update_lock.                                                            *)
(***************************************************************************)
\* a lock that excludes nobody
AcquireNoExclusion(t) == update_lock' = t

\* `with update_lock:` entered by thread t: blocks while another thread holds it
Acquire(t) == update_lock = NoThread /\ update_lock' = t

Release == update_lock' = NoThread

NoResp == [status |-> "none", count |-> 0, articles |-> <<>>, last_update |-> None]
IdleFrame == [kind |-> "none", pc |-> "idle", arts |-> <<>>, updated |-> None, k |-> 0,
              resp |-> NoResp]

Reqs == 1..MaxReqs
Started == {i \in Reqs : req[i].kind # "none"}

idleMk == [pc |-> "off", text |-> <<>>, keywords |-> <<>>, result |-> FALSE]
idleHl == [pc |-> "off", text |-> <<>>, keywords |-> <<>>, sorted_keywords |-> <<>>, k |-> 0,
           highlighted |-> <<>>, counter |-> 0, replacements |-> <<>>, out |-> <<>>]
idlePipe == [pc |-> "off"]

(***************************************************************************)
(* Strings.  A string is a sequence of characters; a character is a        *)
(* one-character string, and NUL stands for the control byte \x00.         *)
(***************************************************************************)
NUL == "NUL"

\* the tags highlight_keywords writes, each one token of a string
MarkOpen == "<mark class=\"highlight\">"
MarkClose == "</mark>"

\* the characters of the model that the regular expression class \w does not match; a mark tag
\* in a string stands for its characters, which begin with < and end with >
NonWordChars == {" ", ".", "-", "&", NUL, MarkOpen, MarkClose}

\* \w: letters, digits and the underscore
IsWord(c) == c \notin NonWordChars

\* str.lower(), one character
Lowercase == [A |-> "a", B |-> "b", C |-> "c", D |-> "d", E |-> "e", G |-> "g", H |-> "h",
              I |-> "i", L |-> "l", M |-> "m", N |-> "n", O |-> "o", P |-> "p", R |-> "r",
              S |-> "s",
              T |-> "t", W |-> "w"]

Uppercase == DOMAIN Lowercase

LowerChar(c) == IF c \in Uppercase THEN Lowercase[c] ELSE c

\* str.lower()
lower(s) == [j \in 1..Len(s) |-> LowerChar(s[j])]

\* all strings over alphabet of length at most n
StringsUpTo(alphabet, n) == UNION {[1..m -> alphabet] : m \in 0..n}

\* all lists of at most n elements of set
ListsUpTo(set, n) == UNION {[1..m -> set] : m \in 0..n}

(***************************************************************************)
(* Regular expressions: the pattern r"\b" + re.escape(keyword).            *)
(***************************************************************************)
\* is there a \w character at index p of t (indices from 1; outside the string there is none)
IsWordAt(t, p) == p \in 1..Len(t) /\ IsWord(t[p])

\* \b matches before index p: exactly one of the characters around is a \w character
WordBoundary(t, p) == IsWordAt(t, p - 1) # IsWordAt(t, p)

\* re.escape(kw) matches at index p of t
LiteralAt(t, kw, p) ==
    /\ p + Len(kw) - 1 <= Len(t)
    /\ \A j \in 1..Len(kw) : t[p + j - 1] = kw[j]

\* the pattern with a second \b at the end: whole words only
SearchWholeWord(kw, t) ==
    \E p \in 1..(Len(t) + 1) :
        WordBoundary(t, p) /\ LiteralAt(t, kw, p) /\ WordBoundary(t, p + Len(kw))

\* the pattern without \b: any occurrence
SearchAnywhere(kw, t) == \E p \in 1..(Len(t) + 1) : LiteralAt(t, kw, p)

\* re.search(r"\b" + re.escape(kw), t) finds a match
SearchWordStart(kw, t) ==
    \E p \in 1..(Len(t) + 1) : LiteralAt(t, kw, p) /\ WordBoundary(t, p)

\* the regular expression search of match_keywords and detect_swedish_reference
KeywordSearch(kw, t) == SearchWordStart(kw, t)

\* the loop of match_keywords from keyword k on: True at the first keyword found
RECURSIVE MatchFrom(_, _, _)
MatchFrom(text_lower, keywords, k) ==
    IF k > Len(keywords) THEN FALSE
    ELSE IF KeywordSearch(lower(keywords[k]), text_lower) THEN TRUE
    ELSE MatchFrom(text_lower, keywords, k + 1)

match_keywords(text, keywords) == MatchFrom(lower(text), keywords, 1)

(***************************************************************************)
(* One call of match_keywords on bounded inputs.                           *)
(***************************************************************************)
MaxTextLen == 3     \* length of the generated texts
MaxKwLen == 2       \* length of the generated keywords
MaxKws == 2         \* length of the generated keyword lists

Str_mask == <<"m", "a", "s", "k">>
Str_maskinen == <<"m", "a", "s", "k", "i", "n", "e", "n", " ", "ä", "r", " ", "t", "r", "a", "s", "i", "g">>
Str_pengamaskin == <<"p", "e", "n", "g", "a", "m", "a", "s", "k", "i", "n">>
Str_a_mask == <<"t", "h", "i", "s", " ", "i", "s", " ", "a", " ", "m", "a", "s", "k">>
Str_bitmask == <<"b", "i", "t", "m", "a", "s", "k">>
Str_cyberhot == <<"c", "y", "b", "e", "r", "h", "o", "t">>
Str_cyberhoten == <<"c", "y", "b", "e", "r", "h", "o", "t", "e", "n", " ", "ä", "r", " ", "v", "e", "r", "k", "l", "i", "g", "a">>
Str_ransomware == <<"r", "a", "n", "s", "o", "m", "w", "a", "r", "e">>
Str_RANSOMWARE == <<"R", "A", "N", "S", "O", "M", "W", "A", "R", "E", " ", "a", "t", "t", "a", "c", "k">>

\* the calls the specification and the tests name
MatchExamples ==
    {[text |-> Str_maskinen, keywords |-> <<Str_mask>>],
     [text |-> Str_pengamaskin, keywords |-> <<Str_mask>>],
     [text |-> Str_a_mask, keywords |-> <<Str_mask>>],
     [text |-> Str_bitmask, keywords |-> <<Str_mask>>],
     [text |-> Str_cyberhoten, keywords |-> <<Str_cyberhot>>],
     [text |-> Str_RANSOMWARE, keywords |-> <<Str_ransomware>>]}

MatchTexts == StringsUpTo({"a", "A", "."}, MaxTextLen)
\* keywords are non-empty, as load_keywords keeps only lines with text (lines 44-48)
MatchKeywords == (StringsUpTo({"a", "."}, MaxKwLen) \ {<<>>}) \cup {<<"A">>}

(***************************************************************************)
(* highlight_keywords.                                                     *)
(***************************************************************************)
\* sorted(..., key=len, reverse=True) is stable: kw goes behind every keyword at least as long
RECURSIVE InsertByLen(_, _)
InsertByLen(sorted, kw) ==
    IF sorted = <<>> THEN <<kw>>
    ELSE IF Len(Head(sorted)) >= Len(kw) THEN <<Head(sorted)>> \o InsertByLen(Tail(sorted), kw)
    ELSE <<kw>> \o sorted

\* line 32: sorted(keywords, key=len, reverse=True)
RECURSIVE SortedByLen(_)
SortedByLen(keywords) ==
    IF keywords = <<>> THEN <<>>
    ELSE InsertByLen(SortedByLen(SubSeq(keywords, 1, Len(keywords) - 1)),
                     keywords[Len(keywords)])

DigitChars == <<"0", "1", "2", "3", "4", "5", "6", "7", "8", "9">>

\* str(n)
RECURSIVE Digits(_)
Digits(n) == IF n < 10 THEN <<DigitChars[n + 1]>> ELSE Digits(n \div 10) \o <<DigitChars[(n % 10) + 1]>>

\* line 46: f"\x00HIGHLIGHT_{n}\x00"
Placeholder(n) ==
    <<NUL, "H", "I", "G", "H", "L", "I", "G", "H", "T", "_">> \o Digits(n) \o <<NUL>>

\* line 48: the markup recorded for a match
Html(matched) == <<MarkOpen>> \o matched \o <<MarkClose>>

\* a callback that puts the markup straight into the text
ReplaceWithMarkup(n, matched) == Html(matched)

\* lines 44-51: what replace_with_placeholder gives back for match number n
ReplaceWithPlaceholder(n, matched) == Placeholder(n)

\* \w*: the number of word characters of t from index p on
RECURSIVE WordRun(_, _)
WordRun(t, p) == IF IsWordAt(t, p) THEN 1 + WordRun(t, p + 1) ELSE 0

NoMatch == -1

\* the length of the match of \b(kw\w*), letter case ignored, at index p of t, or NoMatch
MatchLenAt(t, kw, p) ==
    IF WordBoundary(t, p) /\ LiteralAt(lower(t), lower(kw), p)
    THEN Len(kw) + WordRun(t, p + Len(kw))
    ELSE NoMatch

\* pattern.sub(replace_with_placeholder, t) from index p on: leftmost matches, none overlapping;
\* an empty match is replaced too and the scan moves on by one character.
\* st = [out, counter, replacements]
RECURSIVE SubFrom(_, _, _, _)
SubFrom(t, kw, p, st) ==
    IF p > Len(t) + 1 THEN st
    ELSE LET n == MatchLenAt(t, kw, p)
             here == IF p <= Len(t) THEN <<t[p]>> ELSE <<>>
         IN IF n = NoMatch
            THEN SubFrom(t, kw, p + 1, [st EXCEPT !.out = @ \o here])
            ELSE LET matched == SubSeq(t, p, p + n - 1)
                     st2 == [out |-> st.out \o ReplaceWithPlaceholder(st.counter, matched)
                                        \o (IF n = 0 THEN here ELSE <<>>),
                             counter |-> st.counter + 1,
                             replacements |-> Append(st.replacements,
                                 [placeholder |-> Placeholder(st.counter),
                                  html |-> Html(matched)])]
                 IN SubFrom(t, kw, IF n = 0 THEN p + 1 ELSE p + n, st2)

\* str.replace(old, new) from index p on
RECURSIVE ReplaceFrom(_, _, _, _)
ReplaceFrom(t, old, new, p) ==
    IF p > Len(t) THEN <<>>
    ELSE IF LiteralAt(t, old, p) THEN new \o ReplaceFrom(t, old, new, p + Len(old))
    ELSE <<t[p]>> \o ReplaceFrom(t, old, new, p + 1)

\* lines 56-57: every recorded placeholder replaced by its markup, in the order recorded
RECURSIVE RestoreFrom(_, _, _)
RestoreFrom(t, replacements, k) ==
    IF k > Len(replacements) THEN t
    ELSE RestoreFrom(ReplaceFrom(t, replacements[k].placeholder, replacements[k].html, 1),
                     replacements, k + 1)

(***************************************************************************)
(* Init: the state `python app.py` is in once the initial load of lines    *)
(* 180-188 is done and the background thread has been started.             *)
(***************************************************************************)
CacheInit ==
    \E out \in ScrapeOutcomes :
        /\ heap = HeapWith(<<>>, <<"main", 0>>, out)
        /\ orig = heap
        /\ articles_cache = DictIds(<<"main", 0>>, out)
        /\ now = 1
        /\ last_update = 1
        /\ installs = {<<articles_cache, 1>>}
        /\ update_lock = NoThread
        /\ bg = [pc |-> "scrape", new_articles |-> <<>>, cycles |-> 1, failedAt |-> 0]
        /\ req = [i \in Reqs |-> IdleFrame]

Init == CacheInit /\ mk = idleMk /\ hl = idleHl /\ pipe = idlePipe

(***************************************************************************)
(* update_articles: the background loop.                                   *)
(***************************************************************************)
\* line 75, scrape_all_sites returned
BgScrapeOk ==
    /\ bg.pc = "scrape"
    /\ \E out \in ScrapeOutcomes :
        /\ heap' = HeapWith(heap, <<"bg", bg.cycles>>, out)
        /\ orig' = HeapWith(orig, <<"bg", bg.cycles>>, out)
        /\ bg' = [bg EXCEPT !.pc = "lock",
                            !.new_articles = DictIds(<<"bg", bg.cycles>>, out)]
    /\ UNCHANGED <<articles_cache, last_update, update_lock, now, req, installs, mk, hl, pipe>>

\* the try block around the loop instead of inside it: the exception ends the thread
BgScrapeRaiseEndsLoop ==
    /\ bg.pc = "scrape"
    /\ bg' = [bg EXCEPT !.pc = "dead", !.failedAt = bg.cycles]
    /\ UNCHANGED <<articles_cache, last_update, update_lock, heap, now, req, installs, orig,
                   mk, hl, pipe>>

\* lines 75, 82-83: scrape_all_sites raised; the handler prints and the loop goes on to sleep
BgScrapeRaise ==
    /\ bg.pc = "scrape"
    /\ bg' = [bg EXCEPT !.pc = "sleep", !.failedAt = bg.cycles]
    /\ UNCHANGED <<articles_cache, last_update, update_lock, heap, now, req, installs, orig,
                   mk, hl, pipe>>

\* lines 77-78: the lock is taken and the list installed
BgWriteCache ==
    /\ bg.pc = "lock"
    /\ Acquire(BgThread)
    /\ articles_cache' = bg.new_articles
    /\ bg' = [bg EXCEPT !.pc = "w_time"]
    /\ UNCHANGED <<last_update, heap, now, req, installs, orig, mk, hl, pipe>>

\* line 79 and the end of the with block; line 81 prints
BgWriteTime ==
    /\ bg.pc = "w_time"
    /\ now' = now + 1
    /\ last_update' = now'
    /\ installs' = installs \cup {<<bg.new_articles, now'>>}
    /\ Release
    /\ bg' = [bg EXCEPT !.pc = "sleep"]
    /\ UNCHANGED <<articles_cache, heap, req, orig, mk, hl, pipe>>

\* line 86 returns and line 72 loops
BgWake ==
    /\ bg.pc = "sleep"
    /\ bg.cycles < MaxCycles
    /\ bg' = [bg EXCEPT !.pc = "scrape", !.cycles = @ + 1]
    /\ UNCHANGED <<articles_cache, last_update, update_lock, heap, now, req, installs, orig,
                   mk, hl, pipe>>

update_articles == BgScrapeOk \/ BgScrapeRaise \/ BgWriteCache \/ BgWriteTime \/ BgWake

(***************************************************************************)
(* The request handlers.  Request i is served by its own thread.           *)
(***************************************************************************)
Handlers == {"index", "api_articles", "refresh"}

\* a request arrives; requests are numbered in the order they arrive
StartRequest(i) ==
    /\ req[i].kind = "none"
    /\ \A j \in Reqs : j < i => req[j].kind # "none"
    /\ \E h \in Handlers :
        req' = [req EXCEPT ![i] = [IdleFrame EXCEPT !.kind = h,
                                   !.pc = IF h = "refresh" THEN "scrape" ELSE "lock"]]
    /\ UNCHANGED <<articles_cache, last_update, update_lock, heap, now, bg, installs, orig,
                   mk, hl, pipe>>

\* ---- refresh ----
\* line 170, scrape_all_sites returned
RefreshScrapeOk(i) ==
    /\ req[i].kind = "refresh" /\ req[i].pc = "scrape"
    /\ \E out \in ScrapeOutcomes :
        /\ heap' = HeapWith(heap, <<"req", i>>, out)
        /\ orig' = HeapWith(orig, <<"req", i>>, out)
        /\ req' = [req EXCEPT ![i].pc = "lock",
                              ![i].arts = DictIds(<<"req", i>>, out)]
    /\ UNCHANGED <<articles_cache, last_update, update_lock, now, bg, installs, mk, hl, pipe>>

\* an error handler that also drops the cached snapshot
RefreshScrapeRaiseInvalidates(i) ==
    /\ req[i].kind = "refresh" /\ req[i].pc = "scrape"
    /\ articles_cache' = <<>>
    /\ last_update' = 0
    /\ req' = [req EXCEPT ![i].pc = "done", ![i].resp = [NoResp EXCEPT !.status = "error"]]
    /\ UNCHANGED <<update_lock, heap, now, bg, installs, orig, mk, hl, pipe>>

\* lines 170, 175-176: scrape_all_sites raised; the handler answers 500 with the message
RefreshScrapeRaise(i) ==
    /\ req[i].kind = "refresh" /\ req[i].pc = "scrape"
    /\ req' = [req EXCEPT ![i].pc = "done", ![i].resp = [NoResp EXCEPT !.status = "error"]]
    /\ UNCHANGED <<articles_cache, last_update, update_lock, heap, now, bg, installs, orig,
                   mk, hl, pipe>>

\* an install that adds the new list to the cached one
RefreshMergeCache(i) ==
    /\ req[i].kind = "refresh" /\ req[i].pc = "lock"
    /\ Acquire(ReqThread(i))
    /\ articles_cache' = articles_cache \o req[i].arts
    /\ req' = [req EXCEPT ![i].pc = "w_time"]
    /\ UNCHANGED <<last_update, heap, now, bg, installs, orig, mk, hl, pipe>>

\* lines 171-172: the lock is taken and the list installed
RefreshWriteCache(i) ==
    /\ req[i].kind = "refresh" /\ req[i].pc = "lock"
    /\ Acquire(ReqThread(i))
    /\ articles_cache' = req[i].arts
    /\ req' = [req EXCEPT ![i].pc = "w_time"]
    /\ UNCHANGED <<last_update, heap, now, bg, installs, orig, mk, hl, pipe>>

\* the count refresh answers with: len(new_articles)
RefreshCount(new_articles) == Len(new_articles)

\* line 173 and the end of the with block, then line 174
RefreshWriteTime(i) ==
    /\ req[i].kind = "refresh" /\ req[i].pc = "w_time"
    /\ now' = now + 1
    /\ last_update' = now'
    /\ installs' = installs \cup {<<req[i].arts, now'>>}
    /\ Release
    /\ req' = [req EXCEPT ![i].pc = "done", ![i].updated = now',
                          ![i].resp = [NoResp EXCEPT !.status = "success",
                                                     !.count = RefreshCount(req[i].arts)]]
    /\ UNCHANGED <<articles_cache, heap, bg, orig, mk, hl, pipe>>

refresh(i) ==
    \/ RefreshScrapeOk(i) \/ RefreshScrapeRaise(i)
    \/ RefreshWriteCache(i) \/ RefreshWriteTime(i)

\* ---- the readers: index and api_articles ----
IsReader(i) == req[i].kind \in {"index", "api_articles"}

\* articles_cache.copy(): a new list holding the same dicts
ListCopy(l) == [k \in 1..Len(l) |-> l[k]]

\* lines 92-93 and 151-152: the lock is taken and the list copied
ReadCopy(i) ==
    /\ IsReader(i) /\ req[i].pc = "lock"
    /\ Acquire(ReqThread(i))
    /\ req' = [req EXCEPT ![i].pc = "upd", ![i].arts = ListCopy(articles_cache)]
    /\ UNCHANGED <<articles_cache, last_update, heap, now, bg, installs, orig, mk, hl, pipe>>

\* lines 94 and 153, and the end of the with block; index then reads the keyword file
\* (lines 97-99), where open() raises when the file is missing
ReadUpdated(i) ==
    /\ IsReader(i) /\ req[i].pc = "upd"
    /\ Release
    /\ \/ req' = [req EXCEPT ![i].pc = IF req[i].kind = "index" THEN "loop" ELSE "json",
                             ![i].k = 1,
                             ![i].updated = last_update]
       \/ /\ req[i].kind = "index"
          /\ req' = [req EXCEPT ![i].pc = "done", ![i].updated = last_update,
                                ![i].resp = [NoResp EXCEPT !.status = "error"]]
    /\ UNCHANGED <<articles_cache, last_update, heap, now, bg, installs, orig, mk, hl, pipe>>

\* lines 155-161: jsonify serialises the dicts of the copied list as they are now
ApiRespond(i) ==
    /\ req[i].kind = "api_articles" /\ req[i].pc = "json"
    /\ req' = [req EXCEPT ![i].pc = "done",
                          ![i].resp = [status |-> "ok", count |-> Len(req[i].arts),
                                       articles |-> [k \in 1..Len(req[i].arts) |->
                                                        heap[req[i].arts[k]]],
                                       last_update |-> req[i].updated]]
    /\ UNCHANGED <<articles_cache, last_update, update_lock, heap, now, bg, installs, orig,
                   mk, hl, pipe>>

\* lines 102-125, one turn of the loop: the display fields are stored into the dict
IndexAnnotate(i) ==
    /\ req[i].kind = "index" /\ req[i].pc = "loop"
    /\ req[i].k <= Len(req[i].arts)
    /\ heap' = [heap EXCEPT ![req[i].arts[req[i].k]] = AnnotateArticle(@)]
    /\ req' = [req EXCEPT ![i].k = @ + 1]
    /\ UNCHANGED <<articles_cache, last_update, update_lock, now, bg, installs, orig,
                   mk, hl, pipe>>

\* lines 129-145
IndexRender(i) ==
    /\ req[i].kind = "index" /\ req[i].pc = "loop"
    /\ req[i].k > Len(req[i].arts)
    /\ req' = [req EXCEPT ![i].pc = "done",
                          ![i].resp = [status |-> "ok", count |-> Len(req[i].arts),
                                       articles |-> [k \in 1..Len(req[i].arts) |->
                                                        heap[req[i].arts[k]]],
                                       last_update |-> req[i].updated]]
    /\ UNCHANGED <<articles_cache, last_update, update_lock, heap, now, bg, installs, orig,
                   mk, hl, pipe>>

index(i) ==
    \/ ((ReadCopy(i) \/ ReadUpdated(i)) /\ req[i].kind = "index")
    \/ IndexAnnotate(i) \/ IndexRender(i)

api_articles(i) ==
    \/ ((ReadCopy(i) \/ ReadUpdated(i)) /\ req[i].kind = "api_articles")
    \/ ApiRespond(i)

Next ==
    \/ BgScrapeOk \/ BgScrapeRaise \/ BgWriteCache \/ BgWriteTime \/ BgWake
    \/ \E i \in Reqs :
        \/ StartRequest(i)
        \/ RefreshScrapeOk(i) \/ RefreshScrapeRaise(i)
        \/ RefreshWriteCache(i) \/ RefreshWriteTime(i)
        \/ ReadCopy(i) \/ ReadUpdated(i)
        \/ ApiRespond(i) \/ IndexAnnotate(i) \/ IndexRender(i)

Spec == Init /\ [][Next]_vars

\* threads are scheduled fairly: the background loop always gets to take its next step
LiveSpec == Spec /\ WF_vars(update_articles)

(***************************************************************************)
(* Properties of the refresh cache.                                        *)
(***************************************************************************)
HasRead(i) == IsReader(i) /\ req[i].pc \in {"loop", "json", "done"}

C2_CacheRecordsUnchanged ==
    \A k \in 1..Len(articles_cache) : heap[articles_cache[k]] = orig[articles_cache[k]]

\* C3: a background cycle whose pipeline raises leaves articles_cache and last_update as
\* they are and goes on to sleep; the loop then attempts another cycle; and a cycle whose
\* pipeline returned installs that result.
C3_BackgroundFailSoft ==
    /\ [][BgScrapeRaise => /\ articles_cache' = articles_cache
                           /\ last_update' = last_update
                           /\ bg'.pc = "sleep"]_vars
    /\ [][BgWriteTime => articles_cache' = bg.new_articles /\ last_update' = now']_vars
    /\ ((bg.pc = "sleep" /\ bg.cycles < MaxCycles) ~> (bg.pc = "scrape"))

\* the first cycle raised and the second one has installed its non-empty result
C3_Witness ==
    /\ bg.failedAt = 1 /\ bg.cycles = 2 /\ bg.pc = "sleep"
    /\ articles_cache = bg.new_articles /\ Len(articles_cache) > 0
    /\ articles_cache[1][1] = "bg" /\ last_update > 1

RefreshDone(i) == req[i].kind = "refresh" /\ req[i].pc = "done"

\* C4: refresh always answers, with success or with a structured error.  On success it has
\* installed its pipeline's list and count is that list's length; on error it wrote nothing to
\* the cache.  No step of refresh changes the state of the background loop.
C4_RefreshOutcome ==
    /\ [](\A i \in Reqs : RefreshDone(i) =>
            \/ /\ req[i].resp.status = "success"
               /\ <<req[i].arts, req[i].updated>> \in installs
               /\ req[i].resp.count = Len(req[i].arts)
            \/ /\ req[i].resp.status = "error"
               /\ req[i].updated = None)
    /\ [][\A i \in Reqs : RefreshScrapeRaise(i) =>
            articles_cache' = articles_cache /\ last_update' = last_update]_vars
    /\ [][\A i \in Reqs : (StartRequest(i) \/ refresh(i)) => bg' = bg]_vars

\* one refresh has failed and one has succeeded with a non-empty list, while the background
\* loop sleeps
C4_Witness ==
    \E i \in Reqs :
        /\ RefreshDone(i) /\ req[i].resp.status = "success" /\ req[i].resp.count > 0
        /\ articles_cache = req[i].arts /\ last_update = req[i].updated
        /\ bg.pc = "sleep"

C4_WitnessError ==
    \E i \in Reqs :
        RefreshDone(i) /\ req[i].resp.status = "error" /\ last_update = 1

(***************************************************************************)
(* The keyword matcher on its own: one call of match_keywords.             *)
(***************************************************************************)
\* the cache as the module defines it (lines 63-65), no thread running
CacheIdle ==
    /\ articles_cache = <<>>
    /\ last_update = None
    /\ update_lock = NoThread
    /\ heap = <<>>
    /\ orig = <<>>
    /\ now = 0
    /\ installs = {}
    /\ bg = [pc |-> "off", new_articles |-> <<>>, cycles |-> 0, failedAt |-> 0]
    /\ req = [i \in Reqs |-> IdleFrame]

MatchInit ==
    /\ CacheIdle /\ hl = idleHl /\ pipe = idlePipe
    /\ \/ \E inp \in MatchExamples :
            mk = [pc |-> "call", text |-> inp.text, keywords |-> inp.keywords,
                  result |-> FALSE]
       \/ \E t \in MatchTexts, ks \in ListsUpTo(MatchKeywords, MaxKws) :
            mk = [pc |-> "call", text |-> t, keywords |-> ks, result |-> FALSE]

\* lines 87-96
MatchCall ==
    /\ mk.pc = "call"
    /\ mk' = [mk EXCEPT !.pc = "done", !.result = match_keywords(mk.text, mk.keywords)]
    /\ UNCHANGED <<cacheVars, hl, pipe>>

MatchSpec == MatchInit /\ [][MatchCall]_vars

(***************************************************************************)
(* Properties of the keyword matcher.                                      *)
(***************************************************************************)
\* kw occurs in text at index p, letter case ignored
OccursAt(text, kw, p) == LiteralAt(lower(text), lower(kw), p)

\* index p is the start of the text or follows a character that is not a word character
AtWordStart(text, p) == p = 1 \/ ~IsWord(text[p - 1])

\* the rule as the claim words it, for one keyword
ClaimedRule(text, kw) ==
    \E p \in 1..(Len(text) + 1) : OccursAt(text, kw, p) /\ AtWordStart(text, p)

\* the rule with the keywords told apart by their first character
BoundaryRule(text, kw) ==
    \E p \in 1..Len(text) :
        /\ OccursAt(text, kw, p)
        /\ IF IsWord(kw[1]) THEN AtWordStart(text, p) ELSE p > 1 /\ IsWord(text[p - 1])

Reverse(l) == [j \in 1..Len(l) |-> l[Len(l) + 1 - j]]

\* C8 as claimed: match_keywords is true exactly when some keyword occurs, case ignored, at
\* the start of the text or right after a character that is not a word character.
C8_AsClaimed ==
    mk.pc = "done" =>
        mk.result = (\E k \in 1..Len(mk.keywords) : ClaimedRule(mk.text, mk.keywords[k]))

\* C8 amended: for every text and list of non-empty keywords, match_keywords is true exactly
\* when some keyword occurs, case ignored, at a word boundary: a keyword that begins with a
\* word character at the start of the text or right after a non-word character, a keyword
\* that begins with a non-word character right after a word character.  Nothing is required
\* of what follows; the result does not depend on the order of the keywords and is false for
\* the empty list.
C8_BoundaryMatch ==
    mk.pc = "done" =>
        /\ mk.result = (\E k \in 1..Len(mk.keywords) : BoundaryRule(mk.text, mk.keywords[k]))
        /\ mk.result = match_keywords(mk.text, Reverse(mk.keywords))
        /\ (mk.keywords = <<>> => ~mk.result)

\* a call that is true by its second keyword only, a keyword that starts with "." and is
\* found after a letter, in a text with an upper-case letter
C8_Witness ==
    /\ mk.pc = "done" /\ mk.result
    /\ Len(mk.keywords) = 2
    /\ ~BoundaryRule(mk.text, mk.keywords[1])
    /\ mk.keywords[2] = <<".", "a">>
    /\ mk.text = <<"a", ".", "A">>

\* C9 as claimed: match_keywords("maskinen är trasig", ["mask"]) is false.
C9_AsClaimed ==
    (mk.pc = "done" /\ mk.text = Str_maskinen /\ mk.keywords = <<Str_mask>>) => ~mk.result

\* C9 amended: match_keywords("maskinen är trasig", ["mask"]) is true, "mask" being found at
\* the start of the text; it is false for "pengamaskin" and "bitmask", where a letter comes
\* before "mask".
C9_MaskinenMatches ==
    mk.pc = "done" /\ mk.keywords = <<Str_mask>> =>
        /\ mk.text = Str_maskinen => mk.result
        /\ mk.text \in {Str_pengamaskin, Str_bitmask} => ~mk.result

C9_Witness == mk.pc = "done" /\ mk.text = Str_maskinen /\ mk.keywords = <<Str_mask>> /\ mk.result

(***************************************************************************)
(* The highlighter on its own: one call of highlight_keywords.             *)
(***************************************************************************)
MaxHlTextLen == 3   \* length of the generated texts

Str_data_breach == <<"d", "a", "t", "a", " ", "b", "r", "e", "a", "c", "h">>
Str_breach == <<"b", "r", "e", "a", "c", "h">>
Str_malware == <<"m", "a", "l", "w", "a", "r", "e">>
Str_two_keywords == <<"r", "a", "n", "s", "o", "m", "w", "a", "r", "e", " ", "a", "n", "d", " ", "m", "a", "l", "w", "a", "r", "e">>
Str_high == <<"h", "i", "g", "h">>
Str_malware_high == <<"m", "a", "l", "w", "a", "r", "e", " ", "h", "i", "g", "h">>

\* the calls the specification and the tests name, a text that already holds a placeholder,
\* a text that already holds mark tags, and a keyword that is itself a placeholder
HighlightExamples ==
    {[text |-> Str_data_breach, keywords |-> <<Str_data_breach, Str_breach>>],
     [text |-> Str_data_breach, keywords |-> <<Str_breach, Str_data_breach>>],
     [text |-> Str_two_keywords, keywords |-> <<Str_ransomware, Str_malware>>],
     [text |-> Str_RANSOMWARE, keywords |-> <<Str_ransomware>>],
     [text |-> Str_pengamaskin, keywords |-> <<Str_mask>>],
     [text |-> <<>>, keywords |-> <<Str_ransomware>>],
     [text |-> Str_malware_high, keywords |-> <<Str_malware, Str_high>>],
     [text |-> <<"a", " ">> \o Placeholder(0), keywords |-> <<<<"a">>>>],
     [text |-> <<MarkOpen, "a", MarkClose>>, keywords |-> <<<<"a">>>>],
     [text |-> <<"a">> \o Placeholder(1) \o <<" ", "b">>,
      keywords |-> <<Placeholder(1), <<"b">>>>]}

HighlightTexts == StringsUpTo({"a", "h", " "}, MaxHlTextLen)
HighlightKeywords == {<<"a">>, <<"h">>, <<"a", "h">>, <<"h", "i">>, <<"a", " ", "a">>}

HighlightInit ==
    /\ CacheIdle /\ mk = idleMk /\ pipe = idlePipe
    /\ \/ \E inp \in HighlightExamples :
            hl = [idleHl EXCEPT !.pc = "call", !.text = inp.text, !.keywords = inp.keywords]
       \/ \E t \in HighlightTexts, ks \in ListsUpTo(HighlightKeywords, MaxKws) :
            hl = [idleHl EXCEPT !.pc = "call", !.text = t, !.keywords = ks]

\* lines 28-29: nothing to do for an empty text
HlEmpty ==
    /\ hl.pc = "call" /\ hl.text = <<>>
    /\ hl' = [hl EXCEPT !.pc = "done", !.out = hl.text]
    /\ UNCHANGED <<cacheVars, mk, pipe>>

\* lines 32-37
HlSort ==
    /\ hl.pc = "call" /\ hl.text # <<>>
    /\ hl' = [hl EXCEPT !.pc = "loop", !.sorted_keywords = SortedByLen(hl.keywords), !.k = 1,
                        !.highlighted = hl.text, !.counter = 0, !.replacements = <<>>]
    /\ UNCHANGED <<cacheVars, mk, pipe>>

\* lines 39-53, one keyword
HlKeyword ==
    /\ hl.pc = "loop" /\ hl.k <= Len(hl.sorted_keywords)
    /\ LET st == SubFrom(hl.highlighted, hl.sorted_keywords[hl.k], 1,
                         [out |-> <<>>, counter |-> hl.counter,
                          replacements |-> hl.replacements])
       IN hl' = [hl EXCEPT !.k = @ + 1, !.highlighted = st.out, !.counter = st.counter,
                           !.replacements = st.replacements]
    /\ UNCHANGED <<cacheVars, mk, pipe>>

\* lines 56-59
HlRestore ==
    /\ hl.pc = "loop" /\ hl.k > Len(hl.sorted_keywords)
    /\ hl' = [hl EXCEPT !.pc = "done",
                        !.out = RestoreFrom(hl.highlighted, hl.replacements, 1)]
    /\ UNCHANGED <<cacheVars, mk, pipe>>

highlight_keywords == HlEmpty \/ HlSort \/ HlKeyword \/ HlRestore

HighlightSpec == HighlightInit /\ [][highlight_keywords]_vars

(***************************************************************************)
(* Properties of the highlighter.                                          *)
(***************************************************************************)
IsTag(c) == c \in {MarkOpen, MarkClose}
TagsOf(t) == SelectSeq(t, IsTag)

\* the mark tags of t open and close in turn: no mark inside a mark, none overlapping another
FlatMarks(t) ==
    /\ Len(TagsOf(t)) % 2 = 0
    /\ \A j \in 1..Len(TagsOf(t)) :
        TagsOf(t)[j] = IF j % 2 = 1 THEN MarkOpen ELSE MarkClose

Contains(t, c) == \E p \in 1..Len(t) : t[p] = c

\* the input is plain text: no mark tag in the text, no control byte in a keyword
PlainInput ==
    /\ ~Contains(hl.text, MarkOpen) /\ ~Contains(hl.text, MarkClose)
    /\ \A k \in 1..Len(hl.keywords) : ~Contains(hl.keywords[k], NUL)

IsDataBreachCall ==
    /\ hl.text = Str_data_breach
    /\ hl.keywords \in {<<Str_data_breach, Str_breach>>, <<Str_breach, Str_data_breach>>}

Get(d, k, default) == IF k \in DOMAIN d THEN d[k] ELSE default

\* None where a text or a link is expected (texts and links are sequences)
NoText == <<None>>

\* truth value of a text or a link: None and the empty one are false
Truthy(v) == v # NoText /\ v # <<>>

\* str.strip(): the text between its first and its last character that is not a space
Strip(s) ==
    LET black == {j \in 1..Len(s) : s[j] # " "}
    IN  IF black = {} THEN <<>>
        ELSE SubSeq(s, CHOOSE j \in black : \A h \in black : j <= h,
                       CHOOSE j \in black : \A h \in black : j >= h)

\* text.rsplit(" ", 1)[0]: the text before its last space, all of it when it has none
RSplitHead(s) ==
    LET spaces == {j \in 1..Len(s) : s[j] = " "}
    IN  IF spaces = {} THEN s
        ELSE SubSeq(s, 1, (CHOOSE j \in spaces : \A h \in spaces : j >= h) - 1)

Ellipsis == <<".", ".", ".">>

\* text[:max_length].rsplit(" ", 1)[0] + "..." when the text is longer than max_length
Shorten(text, max_length) ==
    IF Len(text) <= max_length THEN text
    ELSE RSplitHead(SubSeq(text, 1, max_length)) \o Ellipsis

SummaryLength == 150
DescriptionLength == 300
ArticleLimit == 50

generate_summary(text) == Shorten(Strip(text), SummaryLength)

\* the Swedish indicators of detect_swedish_reference
swedish_keywords ==
    << <<"s", "w", "e", "d", "e", "n">>,
       <<"s", "v", "e", "r", "i", "g", "e">>,
       <<"s", "w", "e", "d", "i", "s", "h">>,
       <<"s", "t", "o", "c", "k", "h", "o", "l", "m">>,
       <<"g", "ö", "t", "e", "b", "o", "r", "g">>,
       <<"g", "o", "t", "h", "e", "n", "b", "u", "r", "g">>,
       <<"m", "a", "l", "m", "ö">>,
       <<"m", "a", "l", "m", "o">>,
       <<"u", "p", "p", "s", "a", "l", "a">>,
       <<"v", "ä", "s", "t", "e", "r", "å", "s">>,
       <<"v", "a", "s", "t", "e", "r", "a", "s">>,
       <<"ö", "r", "e", "b", "r", "o">>,
       <<"o", "r", "e", "b", "r", "o">>,
       <<"l", "i", "n", "k", "ö", "p", "i", "n", "g">>,
       <<"l", "i", "n", "k", "o", "p", "i", "n", "g">>,
       <<"h", "e", "l", "s", "i", "n", "g", "b", "o", "r", "g">>,
       <<"j", "ö", "n", "k", "ö", "p", "i", "n", "g">>,
       <<"j", "o", "n", "k", "o", "p", "i", "n", "g">>,
       <<"n", "o", "r", "r", "k", "ö", "p", "i", "n", "g">>,
       <<"n", "o", "r", "r", "k", "o", "p", "i", "n", "g">>,
       <<"l", "u", "n", "d">>,
       <<"u", "m", "e", "å">>,
       <<"u", "m", "e", "a">>,
       <<"g", "ä", "v", "l", "e">>,
       <<"g", "a", "v", "l", "e">>,
       <<"b", "o", "r", "å", "s">>,
       <<"b", "o", "r", "a", "s">>,
       <<".", "s", "e">>,
       <<"v", "o", "l", "v", "o">>,
       <<"e", "r", "i", "c", "s", "s", "o", "n">>,
       <<"i", "k", "e", "a">>,
       <<"h", "&", "m">>,
       <<"s", "p", "o", "t", "i", "f", "y">>,
       <<"k", "l", "a", "r", "n", "a">>,
       <<"s", "k", "a", "n", "s", "k", "a">>,
       <<"s", "c", "a">>,
       <<"a", "s", "t", "r", "a", "z", "e", "n", "e", "c", "a">>,
       <<"n", "o", "r", "d", "e", "a">>,
       <<"s", "e", "b", " ", "b", "a", "n", "k">>,
       <<"s", "w", "e", "d", "b", "a", "n", "k">>,
       <<"h", "a", "n", "d", "e", "l", "s", "b", "a", "n", "k", "e", "n">>,
       <<"t", "e", "l", "i", "a">>,
       <<"t", "e", "l", "e", "n", "o", "r">>,
       <<"s", "c", "a", "n", "i", "a">>,
       <<"s", "w", "e", "d", "i", "s", "h", " ", "g", "o", "v", "e", "r", "n", "m", "e", "n", "t">>,
       <<"r", "e", "g", "e", "r", "i", "n", "g", "e", "n">>,
       <<"f", "ö", "r", "s", "v", "a", "r", "s", "m", "a", "k", "t", "e", "n">>,
       <<"f", "o", "r", "s", "v", "a", "r", "e", "t">>,
       <<"p", "o", "l", "i", "s", "e", "n">>,
       <<"m", "s", "b">>,
       <<"c", "e", "r", "t", "-", "s", "e">>,
       <<"s", "ä", "p", "o">>,
       <<"s", "a", "p", "o">>,
       <<"f", "ö", "r", "s", "ä", "k", "r", "i", "n", "g", "s", "k", "a", "s", "s", "a", "n">>,
       <<"f", "o", "r", "s", "a", "k", "r", "i", "n", "g", "s", "k", "a", "s", "s", "a", "n">>,
       <<"s", "k", "a", "t", "t", "e", "v", "e", "r", "k", "e", "t">>,
       <<"a", "r", "b", "e", "t", "s", "f", "ö", "r", "m", "e", "d", "l", "i", "n", "g", "e", "n">>,
       <<"a", "r", "b", "e", "t", "s", "f", "o", "r", "m", "e", "d", "l", "i", "n", "g", "e", "n">> >>

\* a detector that wants every indicator at the start of the text or after a character
\* that is not a word character
DetectAtWordStart(text) ==
    LET text_lower == lower(text)
    IN  \E k \in 1..Len(swedish_keywords) : \E p \in 1..Len(text_lower) :
            /\ LiteralAt(text_lower, swedish_keywords[k], p)
            /\ (p = 1 \/ ~IsWord(text_lower[p - 1]))

\* lines 99-127
detect_swedish_reference(text) == MatchFrom(lower(text), swedish_keywords, 1)

\* datetime values are counted in days from datetime.min
DatetimeMin == 0

\* date_parser.parse on the raw timestamps of the model: the value parsed and whether it
\* carries a time zone, or a ParserError
DateutilParse ==
    [s \in {"not a date", "0001-01-01T00:00:00Z", "2020-01-01T00:00:00Z", "2020-01-01",
            "2024-06-01T00:00:00+02:00"} |->
        CASE s = "not a date" -> [error |-> TRUE, days |-> 0, tzinfo |-> None]
          [] s = "0001-01-01T00:00:00Z" -> [error |-> FALSE, days |-> 0, tzinfo |-> "UTC"]
          [] s = "2020-01-01T00:00:00Z" -> [error |-> FALSE, days |-> 737424, tzinfo |-> "UTC"]
          [] s = "2020-01-01" -> [error |-> FALSE, days |-> 737424, tzinfo |-> None]
          [] s = "2024-06-01T00:00:00+02:00" ->
                [error |-> FALSE, days |-> 739037, tzinfo |-> "+02:00"]]

RawTimestamps == DOMAIN DateutilParse \cup {None, ""}

\* parsed.replace(tzinfo=None) keeps the date and time as written
parse_timestamp(timestamp_str) ==
    IF timestamp_str \in {None, ""} THEN DatetimeMin
    ELSE IF DateutilParse[timestamp_str].error THEN DatetimeMin
    ELSE DateutilParse[timestamp_str].days

(***************************************************************************)
(* The fetchers scrape_rss_feed and scrape_site.  A source answers with a  *)
(* failure (timeout, connection error, status, a document that does not    *)
(* parse) or with a document: the list of its items or article containers, *)
(* each with the title, link, timestamp and description found in it        *)
(* (NoText or None where the element is not there).                        *)
(***************************************************************************)
Returns(articles) == [raised |-> FALSE, articles |-> articles]
Raises == [raised |-> TRUE, articles |-> <<>>]

\* the handlers at lines 262-263 and 331-332: they print site_config['name'], a KeyError of
\* their own when the source has no name
OuterExcept(site_config, articles) ==
    IF "name" \in DOMAIN site_config THEN Returns(articles) ELSE Raises

\* items[:50]
FirstItems(items) ==
    SubSeq(items, 1, IF Len(items) < ArticleLimit THEN Len(items) ELSE ArticleLimit)

\* lines 185-192
RssTitle(item) == IF item.title = NoText THEN NoText ELSE Strip(item.title)

\* lines 208-231 for a description without markup
RssDescription(item) ==
    IF item.description = NoText \/ Strip(item.description) = <<>> THEN NoText
    ELSE Shorten(Strip(item.description), DescriptionLength)

\* lines 247-256
RssArticle(site_config, item) ==
    [title |-> RssTitle(item),
     link |-> item.link,
     origin |-> site_config.name,
     origin_url |-> site_config.url,
     timestamp |-> item.timestamp,
     category |-> Get(site_config, "category", "international"),
     ingress |-> IF Truthy(RssDescription(item)) THEN RssDescription(item) ELSE <<>>,
     ingress_selector |-> ""]

\* lines 182-260 from item k on.  Building the dict of an item that has a title and a link
\* reads site_config["name"] and site_config["url"]; the KeyError is handled at 258-260 by
\* printing site_config['name'], which raises again when there is no name, and so does the
\* outer handler
RECURSIVE RssItems(_, _, _, _)
RssItems(site_config, items, k, articles) ==
    IF k > Len(items) THEN Returns(articles)
    ELSE IF ~(Truthy(RssTitle(items[k])) /\ Truthy(items[k].link))
         THEN RssItems(site_config, items, k + 1, articles)
    ELSE IF {"name", "url"} \subseteq DOMAIN site_config
         THEN RssItems(site_config, items, k + 1,
                       Append(articles, RssArticle(site_config, items[k])))
    ELSE IF "name" \in DOMAIN site_config
         THEN RssItems(site_config, items, k + 1, articles)
    ELSE Raises

scrape_rss_feed(site_config, response) ==
    IF ~response.ok THEN OuterExcept(site_config, <<>>)
    ELSE RssItems(site_config, FirstItems(response.items), 1, <<>>)

\* urljoin(site_config["url"], link) for a link that does not start with http
urljoin(base, link) == <<base, link[2]>>

\* lines 295-326
HtmlArticle(site_config, item) ==
    [title |-> Strip(item.title),
     link |-> IF item.link # <<>> /\ item.link[1] = ""
              THEN urljoin(site_config.url, item.link) ELSE item.link,
     origin |-> site_config.name,
     origin_url |-> site_config.url,
     timestamp |-> IF "timestamp" \in DOMAIN site_config.selectors
                   THEN item.timestamp ELSE None,
     category |-> Get(site_config, "category", "international"),
     ingress_selector |-> Get(site_config.selectors, "ingress", "")]

\* lines 289-329 from container k on: an exception in one container is passed over
RECURSIVE HtmlItems(_, _, _, _)
HtmlItems(site_config, items, k, articles) ==
    IF k > Len(items) THEN articles
    ELSE IF /\ {"title", "link"} \subseteq DOMAIN site_config.selectors
            /\ items[k].title # NoText /\ items[k].link # NoText
            /\ "name" \in DOMAIN site_config
         THEN HtmlItems(site_config, items, k + 1,
                        Append(articles, HtmlArticle(site_config, items[k])))
    ELSE HtmlItems(site_config, items, k + 1, articles)

scrape_site(site_config, response) ==
    IF "rss_url" \in DOMAIN site_config /\ site_config.rss_url # ""
    THEN scrape_rss_feed(site_config, response)
    ELSE IF \/ "url" \notin DOMAIN site_config
            \/ ~response.ok
            \/ "selectors" \notin DOMAIN site_config
            \/ "articles" \notin DOMAIN site_config.selectors
         THEN OuterExcept(site_config, <<>>)
    ELSE Returns(HtmlItems(site_config, FirstItems(response.items), 1, <<>>))

(***************************************************************************)
(* The sources and documents of the model.                                 *)
(***************************************************************************)
MaxSites == 2       \* sites in config.json

Str_apt28 == <<"a", "p", "t", "2", "8">>
Title_malware == <<"N", "e", "w", " ", "m", "a", "l", "w", "a", "r", "e">>
Title_apt == <<"A", "P", "T", "2", "8", " ", "i", "n", " ", "L", "u", "n", "d">>
Title_weather == <<"W", "e", "a", "t", "h", "e", "r">>
Title_blank == <<" ">>
Desc_malware == <<" ", "M", "a", "l", "w", "a", "r", "e", " ", "w", "a", "v", "e", " ">>
Desc_domain == <<"v", "i", "a", " ", "x", ".", "s", "e">>
Lead_apt == <<"S", "e", "e", "n", " ", "w", "i", "t", "h", " ", "A", "P", "T", "2", "8">>

AbsLink == <<"http://news.example", "/story">>
RelLink == <<"", "/story">>

Site_rss == [name |-> "Feed", url |-> "http://feed.example",
             rss_url |-> "http://feed.example/rss", category |-> "swedish"]
Site_html == [name |-> "Page", url |-> "http://page.example",
              selectors |-> [articles |-> "article", title |-> "h2", link |-> "a",
                             timestamp |-> "time", ingress |-> "p.lead"]]
Site_rss_unnamed == [url |-> "http://feed.example", rss_url |-> "http://feed.example/rss"]
Site_html_unnamed == [url |-> "http://page.example",
                      selectors |-> [articles |-> "article", title |-> "h2", link |-> "a"]]

SiteConfigs == {Site_rss, Site_html, Site_rss_unnamed, Site_html_unnamed}

Item(title, link, timestamp, description) ==
    [title |-> title, link |-> link, timestamp |-> timestamp, description |-> description]

\* dated items: one without a keyword, one with a relative link, two of one date written
\* with and without a time zone
Doc_dated ==
    << Item(Title_malware, AbsLink, "2020-01-01T00:00:00Z", NoText),
       Item(Title_weather, AbsLink, "2024-06-01T00:00:00+02:00", NoText),
       Item(Title_apt, RelLink, "2024-06-01T00:00:00+02:00", NoText),
       Item(Title_malware, AbsLink, "2020-01-01", NoText) >>

\* items without a timestamp, with one that does not parse, and with the first date there is
Doc_undated ==
    << Item(Title_malware, AbsLink, None, NoText),
       Item(Title_apt, AbsLink, "not a date", NoText),
       Item(Title_malware, AbsLink, "0001-01-01T00:00:00Z", NoText) >>

\* items with an empty link (and an empty timestamp), a blank title, no title element, no
\* link element
Doc_partial ==
    << Item(Title_malware, <<>>, "", NoText),
       Item(Title_blank, AbsLink, "2020-01-01", NoText),
       Item(NoText, AbsLink, "2020-01-01", NoText),
       Item(Title_malware, NoText, "2020-01-01", NoText) >>

\* items with a description: the keyword is in the description only; a blank description;
\* a description that names a .se domain
Doc_described ==
    << Item(Title_weather, AbsLink, "2020-01-01", Desc_malware),
       Item(Title_malware, AbsLink, None, Title_blank),
       Item(Title_malware, AbsLink, None, Desc_domain) >>

Failure == [ok |-> FALSE, items |-> <<>>]
Document(items) == [ok |-> TRUE, items |-> items]

\* what a source may answer: a feed has descriptions, a page has none
Responses(site_config) ==
    {Failure, Document(Doc_dated), Document(Doc_undated), Document(Doc_partial)}
        \cup IF "rss_url" \in DOMAIN site_config THEN {Document(Doc_described)} ELSE {}

\* the article pages: the lead paragraph found at a link
ArticlePages == (AbsLink :> Lead_apt)

\* lines 138-158: the lead paragraph of the page, "" when the page has none or on any failure
fetch_article_ingress(url, ingress_selector) ==
    IF url \in DOMAIN ArticlePages THEN ArticlePages[url] ELSE <<>>

(***************************************************************************)
(* One run of scrape_all_sites.                                            *)
(***************************************************************************)
PipelineInit ==
    /\ CacheIdle /\ mk = idleMk /\ hl = idleHl
    /\ \E config \in ListsUpTo(SiteConfigs, MaxSites) :
        pipe = [pc |-> "run",
                config |-> config,                      \* config["sites"]
                keywords |-> <<Str_malware, Str_apt28>>,
                apt_keywords |-> <<Str_apt28>>,
                s |-> 1,                                \* the site the first loop is at
                responses |-> <<>>,                     \* history: what each site answered
                fetched |-> <<>>,                       \* history: what scrape_site returned, by site
                all_articles |-> <<>>,                  \* the article dicts, in order of creation
                i |-> 1,                                \* the article the filter loop is at
                filtered_articles |-> <<>>,             \* indices into all_articles
                ingress_calls |-> <<>>,                 \* history: the calls of fetch_article_ingress
                result |-> <<>>]                        \* the list returned: indices into all_articles

\* lines 361-363: one site is scraped; an exception of scrape_site ends the run
PipeScrapeSite ==
    /\ pipe.pc = "run" /\ pipe.s <= Len(pipe.config)
    /\ \E response \in Responses(pipe.config[pipe.s]) :
        LET articles == scrape_site(pipe.config[pipe.s], response)
        IN  pipe' = IF articles.raised
                    THEN [pipe EXCEPT !.pc = "raised",
                                      !.responses = Append(@, response)]
                    ELSE [pipe EXCEPT !.s = @ + 1,
                                      !.responses = Append(@, response),
                                      !.fetched = Append(@, articles.articles),
                                      !.all_articles = @ \o articles.articles]
    /\ UNCHANGED <<cacheVars, mk, hl>>

\* lines 373-374: the article has no ingress yet, and has an ingress selector and a link
NeedsIngress(article) ==
    /\ ~Truthy(Get(article, "ingress", NoText))
    /\ Get(article, "ingress_selector", "") # ""
    /\ Truthy(Get(article, "link", NoText))

\* a filter on the text the article would have with the ingress of its page
FilterMatchEnriched(article, keywords) ==
    match_keywords(article.title \o <<" ">> \o
                       (IF NeedsIngress(article)
                        THEN fetch_article_ingress(article.link, article.ingress_selector)
                        ELSE Get(article, "ingress", <<>>)),
                   keywords)

\* lines 369-371: the filter reads the title and the ingress the article has at that point
FilterMatch(article, keywords) ==
    match_keywords(article.title \o <<" ">> \o Get(article, "ingress", <<>>), keywords)

\* a fetch of the article page for every article that has a selector and a link
IngressCallUnfiltered(article, keywords) == NeedsIngress(article)

\* lines 369-375: fetch_article_ingress is called for an article that matched the keywords
\* and needs an ingress
IngressCall(article, keywords) ==
    /\ FilterMatch(article, keywords)
    /\ NeedsIngress(article)

\* lines 373-395 for an article that matched
Enriched(article, apt_keywords) ==
    LET ingress == IF Truthy(Get(article, "ingress", NoText)) THEN article.ingress
                   ELSE IF NeedsIngress(article)
                        THEN fetch_article_ingress(article.link, article.ingress_selector)
                   ELSE <<>>
        summary == IF Truthy(ingress) THEN ingress ELSE generate_summary(article.title)
        article_text == article.title \o <<" ">> \o ingress
        a1 == [ingress |-> ingress, summary |-> summary] @@ article
        a2 == IF match_keywords(lower(article_text), apt_keywords)
              THEN [is_apt |-> TRUE] @@ a1 ELSE a1
    IN  IF detect_swedish_reference(article_text)
        THEN [is_swedish_reference |-> TRUE] @@ a2 ELSE a2

\* lines 367-397: one article of all_articles is kept, and completed in place, or passed over
PipeFilterArticle ==
    /\ pipe.pc = "run" /\ pipe.s > Len(pipe.config) /\ pipe.i <= Len(pipe.all_articles)
    /\ LET article == pipe.all_articles[pipe.i]
           call == [article |-> pipe.i, url |-> Get(article, "link", NoText),
                    ingress_selector |-> Get(article, "ingress_selector", "")]
           calls == IF IngressCall(article, pipe.keywords)
                    THEN Append(pipe.ingress_calls, call) ELSE pipe.ingress_calls
       IN  IF FilterMatch(article, pipe.keywords)
           THEN pipe' = [pipe EXCEPT
                    !.all_articles[pipe.i] = Enriched(article, pipe.apt_keywords),
                    !.filtered_articles = Append(@, pipe.i),
                    !.ingress_calls = calls,
                    !.i = @ + 1]
           ELSE pipe' = [pipe EXCEPT !.ingress_calls = calls, !.i = @ + 1]
    /\ UNCHANGED <<cacheVars, mk, hl>>

\* the sort key of line 401
SortKey(all_articles, ref) == parse_timestamp(Get(all_articles[ref], "timestamp", ""))

\* an insertion that puts an article before those of its own timestamp
InsertBeforeEqual(all_articles, sorted, ref) ==
    LET n == Cardinality({j \in 1..Len(sorted) :
                 SortKey(all_articles, sorted[j]) > SortKey(all_articles, ref)})
    IN  SubSeq(sorted, 1, n) \o <<ref>> \o SubSeq(sorted, n + 1, Len(sorted))

\* list.sort(key, reverse=True) is stable: an article goes after those that are not older
InsertNewestFirst(all_articles, sorted, ref) ==
    LET n == Cardinality({j \in 1..Len(sorted) :
                 SortKey(all_articles, sorted[j]) >= SortKey(all_articles, ref)})
    IN  SubSeq(sorted, 1, n) \o <<ref>> \o SubSeq(sorted, n + 1, Len(sorted))

RECURSIVE SortNewestFirst(_, _, _, _)
SortNewestFirst(all_articles, refs, k, sorted) ==
    IF k > Len(refs) THEN sorted
    ELSE SortNewestFirst(all_articles, refs, k + 1,
                         InsertNewestFirst(all_articles, sorted, refs[k]))

\* lines 400-404: the sort and the return
PipeSort ==
    /\ pipe.pc = "run" /\ pipe.s > Len(pipe.config) /\ pipe.i > Len(pipe.all_articles)
    /\ pipe' = [pipe EXCEPT
            !.pc = "done",
            !.result = SortNewestFirst(pipe.all_articles, pipe.filtered_articles, 1, <<>>)]
    /\ UNCHANGED <<cacheVars, mk, hl>>

scrape_all_sites == PipeScrapeSite \/ PipeFilterArticle \/ PipeSort

PipelineSpec == PipelineInit /\ [][scrape_all_sites]_vars

(***************************************************************************)
(* Properties of the pipeline.                                             *)
(***************************************************************************)
\* the index in all_articles of the k-th article site s returned
RefOf(s, k) ==
    LET RECURSIVE Before(_)
        Before(t) == IF t = 0 THEN 0 ELSE Before(t - 1) + Len(pipe.fetched[t])
    IN  Before(s - 1) + k

\* the fetch of site s failed
FetchFailed(s) == s \in 1..Len(pipe.responses) /\ ~pipe.responses[s].ok

\* the filter text of an article as its fetcher returned it
FilterText(article) == article.title \o <<" ">> \o Get(article, "ingress", <<>>)

\* a failed fetch neither ends the run nor adds an article, for the sites of set sites
FailSoft(sites) ==
    /\ \A s \in sites :
        FetchFailed(s) =>
            /\ ~(pipe.pc = "raised" /\ pipe.s = s)
            /\ s \in 1..Len(pipe.fetched) => pipe.fetched[s] = <<>>
    /\ pipe.pc = "done" =>
        \A s \in 1..Len(pipe.fetched) : \A k \in 1..Len(pipe.fetched[s]) :
            match_keywords(FilterText(pipe.fetched[s][k]), pipe.keywords)
                => \E j \in 1..Len(pipe.result) : pipe.result[j] = RefOf(s, k)

\* C5: a source whose fetch fails contributes no record, and the run completes and returns
\* every keyword-matching record of the sources that succeeded, whatever the configured
\* sources are.
C5_FailSoftFetch == FailSoft(1..Len(pipe.config))

\* C5 for the sources that have a name
C5_NamedSources == FailSoft({s \in 1..Len(pipe.config) : "name" \in DOMAIN pipe.config[s]})

\* a run has returned an article of its second source after the fetch of the first failed
C5_NamedWitness ==
    /\ pipe.pc = "done" /\ Len(pipe.config) = 2 /\ FetchFailed(1) /\ ~FetchFailed(2)
    /\ Len(pipe.result) > 0

\* C6: every record a fetcher produced, and every record returned, has a non-empty title
\* and a non-empty link.
C6_TitleAndLink ==
    \A k \in 1..Len(pipe.all_articles) :
        Truthy(pipe.all_articles[k].title) /\ Truthy(pipe.all_articles[k].link)

\* C6 for the list returned alone
C6_ReturnedTitleAndLink ==
    \A j \in 1..Len(pipe.result) :
        /\ Truthy(pipe.all_articles[pipe.result[j]].title)
        /\ Truthy(pipe.all_articles[pipe.result[j]].link)

\* the raw timestamp of the j-th article returned, and its sort key
RawOf(j) == Get(pipe.all_articles[pipe.result[j]], "timestamp", "")
KeyOf(j) == parse_timestamp(RawOf(j))

\* the timestamp is absent or does not parse
Undated(raw) == raw \in {None, ""} \/ DateutilParse[raw].error

\* the place of an article in the list before the sort
PlaceBefore(ref) == CHOOSE p \in 1..Len(pipe.filtered_articles) : pipe.filtered_articles[p] = ref

\* the list returned holds the articles of the list before the sort, newest first, those of
\* one parsed value in the order they had
NewestFirstStable ==
    /\ Len(pipe.result) = Len(pipe.filtered_articles)
    /\ {pipe.result[j] : j \in 1..Len(pipe.result)}
         = {pipe.filtered_articles[j] : j \in 1..Len(pipe.filtered_articles)}
    /\ \A j, k \in 1..Len(pipe.result) :
        j < k =>
            /\ KeyOf(j) >= KeyOf(k)
            /\ KeyOf(j) = KeyOf(k) => PlaceBefore(pipe.result[j]) < PlaceBefore(pipe.result[k])

WithoutTags(t) == SelectSeq(t, LAMBDA c : ~IsTag(c))

\* the text holds neither the control byte nor a mark tag
PlainText == ~Contains(hl.text, NUL) /\ ~Contains(hl.text, MarkOpen) /\ ~Contains(hl.text, MarkClose)

\* C11: for a text free of the control byte (and of mark tags), whatever the keywords, no
\* keyword matches inside a placeholder left by an earlier keyword: every placeholder is
\* restored, so the output holds no control byte, and the output without its mark tags is
\* the original text.
C11_PlaceholdersRestored ==
    (hl.pc = "done" /\ PlainText) =>
        /\ ~Contains(hl.out, NUL)
        /\ WithoutTags(hl.out) = hl.text

(***************************************************************************)
(* Source definitions that lack a field.                                   *)
(***************************************************************************)
\* the source definition lacks name, url, or, for a page source, selectors or one of the
\* articles, title and link selectors
LacksRequired(site_config) ==
    \/ "name" \notin DOMAIN site_config
    \/ "url" \notin DOMAIN site_config
    \/ /\ ~("rss_url" \in DOMAIN site_config /\ site_config.rss_url # "")
       /\ \/ "selectors" \notin DOMAIN site_config
          \/ {"articles", "title", "link"} \ DOMAIN site_config.selectors # {}

\* C12: a source definition that lacks a required field is handled like a parse failure
\* of that source, also when its fetch succeeds: its fetcher returns without raising and
\* yields no record, and the run goes on to the remaining sources.
C12_MalformedSourceContained ==
    \A s \in 1..Len(pipe.responses) :
        (LacksRequired(pipe.config[s]) /\ pipe.responses[s].ok) =>
            /\ ~(pipe.pc = "raised" /\ pipe.s = s)
            /\ s \in 1..Len(pipe.fetched) => pipe.fetched[s] = <<>>

(***************************************************************************)
(* The deferred fetch of the ingress.                                      *)
(***************************************************************************)
\* the articles as their fetchers returned them, in the order of all_articles
RECURSIVE Flat(_)
Flat(lists) == IF lists = <<>> THEN <<>> ELSE Head(lists) \o Flat(Tail(lists))

Fetched == Flat(pipe.fetched)

\* the filter loop has kept article i
Kept(i) == \E j \in 1..Len(pipe.filtered_articles) : pipe.filtered_articles[j] = i

\* fetch_article_ingress has been called for article i
Called(i) == \E c \in 1..Len(pipe.ingress_calls) : pipe.ingress_calls[c].article = i

\* C13: fetch_article_ingress is called for a record only once the record has matched
\* the keywords, and only for a record that had no ingress and has an ingress selector
\* and a link; never for a record the filter passes over or one that came with an
\* ingress from its feed; and at most once for a record.
C13_IngressOnlyForMatches ==
    /\ \A c \in 1..Len(pipe.ingress_calls) :
        LET i == pipe.ingress_calls[c].article
            fetched == Fetched[i]
        IN  /\ i < pipe.i /\ Kept(i)
            /\ match_keywords(FilterText(fetched), pipe.keywords)
            /\ ~Truthy(Get(fetched, "ingress", NoText))
            /\ pipe.ingress_calls[c].ingress_selector # ""
            /\ Truthy(pipe.ingress_calls[c].url)
            /\ pipe.ingress_calls[c].url = fetched.link
            /\ pipe.ingress_calls[c].ingress_selector = fetched.ingress_selector
    /\ \A c, d \in 1..Len(pipe.ingress_calls) :
        pipe.ingress_calls[c].article = pipe.ingress_calls[d].article => c = d

\* a run has returned a record it fetched the ingress for, one it kept with the ingress
\* of its feed and without a call, and it has passed over a record with a selector
C13_Witness ==
    /\ pipe.pc = "done"
    /\ \E i \in 1..Len(Fetched) : Kept(i) /\ Called(i)
    /\ \E i \in 1..Len(Fetched) :
        Kept(i) /\ ~Called(i) /\ Truthy(Get(Fetched[i], "ingress", NoText))
    /\ \E i \in 1..Len(Fetched) :
        ~Kept(i) /\ ~Called(i) /\ Get(Fetched[i], "ingress_selector", "") # ""

(***************************************************************************)
(* What the filter keeps.                                                  *)
(***************************************************************************)
\* how often article i is in the list returned
TimesReturned(i) == Cardinality({j \in 1..Len(pipe.result) : pipe.result[j] = i})

\* the ingress the page of a fetched article would give
PageIngress(fetched) ==
    IF NeedsIngress(fetched) THEN fetch_article_ingress(fetched.link, fetched.ingress_selector)
    ELSE <<>>

\* C14: the list returned holds exactly the fetched records whose title + " " + ingress,
\* with the ingress as fetched (none for a record of a page), matches the keywords: each
\* of them once, with the title and link it was fetched with, and no other record,
\* whatever the ingress of the article page holds.
C14_ReturnedAreTheMatches ==
    pipe.pc = "done" =>
        /\ \A j \in 1..Len(pipe.result) : pipe.result[j] \in 1..Len(Fetched)
        /\ \A i \in 1..Len(Fetched) :
            /\ TimesReturned(i) =
                 IF match_keywords(FilterText(Fetched[i]), pipe.keywords) THEN 1 ELSE 0
            /\ pipe.all_articles[i].title = Fetched[i].title
            /\ pipe.all_articles[i].link = Fetched[i].link

\* a run has returned a record and has left out a record of a page whose title does not
\* match while the ingress of its article page does
C14_Witness ==
    /\ pipe.pc = "done"
    /\ \E i \in 1..Len(Fetched) : TimesReturned(i) = 1
    /\ \E i \in 1..Len(Fetched) :
        /\ TimesReturned(i) = 0
        /\ "ingress" \notin DOMAIN Fetched[i]
        /\ match_keywords(PageIngress(Fetched[i]), pipe.keywords)

(***************************************************************************)
(* The flags of a returned record.                                         *)
(***************************************************************************)
\* the text the flags are computed from, in lower case
FlagText(article) == lower(article.title \o <<" ">> \o article.ingress)

\* the lower-case keyword kw occurs in the lower-case text t at the start of the text or
\* right after a character that is not a word character
AtStartRule(t, kw) ==
    \E p \in 1..Len(t) : LiteralAt(t, kw, p) /\ AtWordStart(t, p)

\* the lower-case keyword kw occurs in the lower-case text t at a word boundary
AtBoundaryRule(t, kw) ==
    \E p \in 1..Len(t) :
        /\ LiteralAt(t, kw, p)
        /\ IF IsWord(kw[1]) THEN AtWordStart(t, p) ELSE p > 1 /\ IsWord(t[p - 1])

\* the flags of every returned record are as the rule says
FlagsFollow(Rule(_, _)) ==
    pipe.pc = "done" =>
        \A j \in 1..Len(pipe.result) :
            LET article == pipe.all_articles[pipe.result[j]]
                t == FlagText(article)
            IN  /\ Get(article, "is_apt", FALSE) =
                     (\E k \in 1..Len(pipe.apt_keywords) : Rule(t, lower(pipe.apt_keywords[k])))
                /\ Get(article, "is_swedish_reference", FALSE) =
                     (\E k \in 1..Len(swedish_keywords) : Rule(t, swedish_keywords[k]))

\* a step clears no flag of a record
FlagsStay ==
    \A i \in 1..Len(pipe.all_articles) :
        /\ Get(pipe.all_articles[i], "is_apt", FALSE)
               => Get(pipe'.all_articles[i], "is_apt", FALSE)
        /\ Get(pipe.all_articles[i], "is_swedish_reference", FALSE)
               => Get(pipe'.all_articles[i], "is_swedish_reference", FALSE)

\* C15 as claimed: for every record returned, is_apt is true exactly when title + " " +
\* ingress, with the ingress after the deferred fetch, has an APT keyword at the start of
\* the text or right after a non-word character, and is_swedish_reference exactly when it
\* has an indicator of the fixed list at such a position; a flag set is never cleared.
C15_AsClaimed == [](FlagsFollow(AtStartRule)) /\ [][FlagsStay]_vars

\* C15 amended: for every record returned, is_apt is true exactly when title + " " +
\* ingress, with the ingress after the deferred fetch, has an APT keyword at a word
\* boundary, and is_swedish_reference exactly when it has an indicator of the fixed list
\* at a word boundary: an indicator that begins with a word character at the start of the
\* text or right after a non-word character, the indicator ".se" right after a word
\* character.  A flag set is never cleared.
C15_FlagsAtBoundary == [](FlagsFollow(AtBoundaryRule)) /\ [][FlagsStay]_vars

\* a run has returned a record flagged for the ".se" that follows a word character, a
\* record flagged as APT for the ingress of its article page, and a record without a flag
C15_Witness ==
    /\ pipe.pc = "done"
    /\ \E j \in 1..Len(pipe.result) :
        LET article == pipe.all_articles[pipe.result[j]]
        IN  /\ Get(article, "is_swedish_reference", FALSE)
            /\ ~AtStartRule(FlagText(article), <<".", "s", "e">>)
            /\ ~Get(article, "is_apt", FALSE)
    /\ \E j \in 1..Len(pipe.result) :
        LET article == pipe.all_articles[pipe.result[j]]
        IN  /\ Get(article, "is_apt", FALSE)
            /\ ~match_keywords(article.title, pipe.apt_keywords)
    /\ \E j \in 1..Len(pipe.result) :
        LET article == pipe.all_articles[pipe.result[j]]
        IN  /\ ~Get(article, "is_apt", FALSE)
            /\ ~Get(article, "is_swedish_reference", FALSE)

(***************************************************************************)
(* A refresh and a background cycle that both install.                     *)
(***************************************************************************)
\* the list is the whole result of one run: the dicts that run built, all of them, in order
WholeRun(list) ==
    list # <<>> =>
        LET run == <<list[1][1], list[1][2]>>
        IN  /\ list = DictIds(run, Len(list))
            /\ \A id \in DOMAIN heap : (id[1] = run[1] /\ id[2] = run[2]) => id[3] <= Len(list)

\* C16: a background cycle and a refresh that run at the same time each replace the cached
\* list as a whole, never merging: whenever the lock is free, the cache holds the complete
\* list of the run that took the lock last, with the last_update of that install, whichever
\* run started first.
C16_LastInstallWins ==
    update_lock = NoThread =>
        /\ <<articles_cache, last_update>> \in installs
        /\ \A install \in installs : install[2] <= last_update
        /\ WholeRun(articles_cache)

\* the first background cycle, which started before any request, has installed its article
\* after a refresh that returned an article installed during it: the cache holds the list of
\* the cycle, which took the lock last
C16_Witness ==
    /\ update_lock = NoThread /\ bg.cycles = 1 /\ bg.pc = "sleep"
    /\ articles_cache = DictIds(<<"bg", 1>>, 1)
    /\ \E i \in Reqs :
        /\ RefreshDone(i) /\ req[i].resp.status = "success" /\ req[i].resp.count = 1
        /\ <<DictIds(<<"req", i>>, 1), req[i].updated>> \in installs
        /\ req[i].updated < last_update

=============================================================================
